---- MODULE Spec2Model ----
(***************************************************************************)
(* Equilibration-based initialisation of opm-core:                         *)
(*   Opm::Equil::DeckDependent::getEquil, equilnum and                     *)
(*   InitialStateComputer (opm/core/simulator/initStateEquil.hpp).         *)
(* One behaviour is one construction of an InitialStateComputer: member    *)
(* initialisation, getEquil, equilnum, the Rs and Rv function loops, the   *)
(* SWATINIT block and the region loop of calcPressSatRsRv.                 *)
(***************************************************************************)
EXTENDS Integers, Sequences, FiniteSets, TLC

(* ---------------------------------------------------------------------- *)
(* Bounds of the model                                                     *)
(* ---------------------------------------------------------------------- *)
\* G.number_of_cells
NumCells == 2
\* largest number of EQUIL records, and largest EQLNUM value, of a deck
MaxRec == 2
\* largest number of RSVD (RVVD) tables, and largest table index of a record
MaxTab == 2

Cells == 0 .. (NumCells - 1)

(* ---------------------------------------------------------------------- *)
(* Inputs                                                                  *)
(* ---------------------------------------------------------------------- *)
\* phase_used[Aqua, Liquid, Vapour] of props.phaseUsage()
PhaseConfigs ==
    { [Aqua |-> TRUE, Liquid |-> TRUE,  Vapour |-> TRUE],
      [Aqua |-> TRUE, Liquid |-> TRUE,  Vapour |-> FALSE],
      [Aqua |-> TRUE, Liquid |-> FALSE, Vapour |-> TRUE] }

\* keywords the deck may hold
DeckFlags ==
    [EQUIL : BOOLEAN, EQLNUM : BOOLEAN, DISGAS : BOOLEAN, VAPOIL : BOOLEAN]

\* item 9 of an EQUIL record (0 is the supported value)
AccuracyTargets == {0, 5}
\* datum depths and gas-oil-contact depths of a deck
DatumDepths == {1000}
ContactDepths == {1000, 1500}
\* datum pressure and gas-oil-contact capillary pressure of a deck
DatumPressures == {300}
ContactPressures == {7}

\* the EquilRecord aggregate: main, woc, goc, the two table indices and N
EquilRecord ==
    [main  : [depth : DatumDepths, press : DatumPressures],
     goc   : [depth : ContactDepths, press : ContactPressures],
     live_oil_table_index : 0 .. MaxTab,
     wet_gas_table_index  : 0 .. MaxTab,
     N     : AccuracyTargets]

\* the value of `record` before the first record is read
NoRecord ==
    [main  |-> [depth |-> 0, press |-> 0],
     goc   |-> [depth |-> 0, press |-> 0],
     live_oil_table_index |-> 0,
     wet_gas_table_index  |-> 0,
     N     |-> 0]

VARIABLES
    pc,           \* position in the constructor
    err,          \* the exception thrown, "none" while there is none
    deck,         \* keywords of the deck
    phase_used,   \* props.phaseUsage().phase_used
    nrec,         \* getEquil: eql.numRegions()
    record,       \* getEquil: the record read last
    rec,          \* the equilibration records
    global_cell,  \* G.global_cell: << >> is NULL
    e,            \* equilnum: the EQLNUM data, at the deck positions read
    eqlnum,       \* region id of every cell
    nRsvd,        \* size of eclipseState->getRsvdTables()
    nRvvd,        \* size of eclipseState->getRvvdTables()
    i,            \* index of the Rs/Rv function loops
    rs_func_,     \* Rs function of every region
    rv_func_,     \* Rv function of every region
    r,            \* region index of calcPressSatRsRv
    order,        \* the region ids, in the order the region loop visits them
    pp_,          \* phase pressures: pp_[p][cell]
    sat_,         \* phase saturations: sat_[p][cell]
    rs_,          \* rs_[cell]
    rv_,          \* rv_[cell]
    writers,      \* history: regions that wrote each slot, per array
    published,    \* the constructor returned: press(), rs(), ... can be called
    pvtDeck,            \* the deck given to PvtPropertiesIncompFromDeck::init
    pvtpc,              \* position of PvtPropertiesIncompFromDeck
    pvterr,             \* the exception thrown by init, "none" without one
    surface_density_,   \* surface_density_[phase position]
    reservoir_density_, \* reservoir_density_[phase position]
    viscosity_          \* viscosity_[phase position]

vars == << pc, err, deck, phase_used, global_cell, e, nrec, record, rec, eqlnum, nRsvd, nRvvd,
           i, rs_func_, rv_func_, r, order, pp_, sat_, rs_, rv_,
           writers, published,
           pvtDeck, pvtpc, pvterr, surface_density_, reservoir_density_,
           viscosity_ >>

(* ---------------------------------------------------------------------- *)
(* Phase usage                                                             *)
(* ---------------------------------------------------------------------- *)
\* props.numPhases()
numPhases(pu) ==
    (IF pu.Aqua THEN 1 ELSE 0) + (IF pu.Liquid THEN 1 ELSE 0)
        + (IF pu.Vapour THEN 1 ELSE 0)

\* variant: the gas phase is numbered before the oil phase
phase_pos_GasFirst(pu, phase) ==
    CASE phase = "Aqua"   -> 0
      [] phase = "Vapour" -> (IF pu.Aqua THEN 1 ELSE 0)
      [] phase = "Liquid" -> (IF pu.Aqua THEN 1 ELSE 0)
                                 + (IF pu.Vapour THEN 1 ELSE 0)

\* props.phaseUsage().phase_pos[phase]: used phases are numbered in the
\* order Aqua, Liquid, Vapour
phase_pos(pu, phase) ==
    CASE phase = "Aqua"   -> 0
      [] phase = "Liquid" -> (IF pu.Aqua THEN 1 ELSE 0)
      [] phase = "Vapour" -> (IF pu.Aqua THEN 1 ELSE 0)
                                 + (IF pu.Liquid THEN 1 ELSE 0)

\* the phase at position p
PhaseAt(pu, p) ==
    CHOOSE ph \in {"Aqua", "Liquid", "Vapour"} : pu[ph] /\ phase_pos(pu, ph) = p

(* ---------------------------------------------------------------------- *)
(* Construction                                                            *)
(* ---------------------------------------------------------------------- *)
\* a vector that has not been constructed
Unallocated == << >>

\* std::vector<double>(G.number_of_cells): value-initialised
ZeroVec == [c \in Cells |-> 0]

ArrayNames == {"pp", "sat", "rs", "rv"}

\* grids: global_cell is NULL (<< >>) or maps cell to deck position
Grids == { << >>, [c \in Cells |-> c + 1] }

\* for (r = 0; r < reg.numRegions(); ++r): the ids in ascending order
Ascending == [k \in 1 .. MaxRec |-> k - 1]

\* every order in which the region ids can be visited
Orders ==
    { o \in [1 .. MaxRec -> 0 .. (MaxRec - 1)] :
        \A j, k \in 1 .. MaxRec : j # k => o[j] # o[k] }

\* the state before the constructor runs, but for the order of the regions
Constructing ==
    /\ pc = "start"
    /\ err = "none"
    /\ deck \in DeckFlags
    /\ phase_used \in PhaseConfigs
    /\ global_cell \in Grids
    /\ e = << >>
    /\ nrec = 0
    /\ record = NoRecord
    /\ rec = << >>
    /\ eqlnum = << >>
    /\ nRsvd = 0
    /\ nRvvd = 0
    /\ i = 0
    /\ rs_func_ = << >>
    /\ rv_func_ = << >>
    /\ r = 0
    /\ pp_ = Unallocated
    /\ sat_ = Unallocated
    /\ rs_ = Unallocated
    /\ rv_ = Unallocated
    /\ writers = [a \in ArrayNames |-> [c \in Cells |-> << >>]]
    /\ published = FALSE

\* PvtPropertiesIncompFromDeck::PvtPropertiesIncompFromDeck(): the arrays
\* of two doubles are left uninitialised
IndeterminateDouble == -1
Uninitialised == [p \in 0 .. 1 |-> IndeterminateDouble]

PvtConstructed ==
    /\ pvtpc = "constructed"
    /\ pvterr = "none"
    /\ surface_density_ = Uninitialised
    /\ reservoir_density_ = Uninitialised
    /\ viscosity_ = Uninitialised

\* a deck without the keywords of the incompressible fluid
NoPvtDeck ==
    [phase_used |-> [Aqua |-> FALSE, Liquid |-> FALSE, Vapour |-> FALSE],
     keywords   |-> {},
     DENSITY    |-> [OIL |-> 0, WATER |-> 0],
     PVTW       |-> [WATER_VOL_FACTOR |-> 0, WATER_VISCOSITY |-> 0],
     PVCDO      |-> [OIL_VOL_FACTOR |-> 0, OIL_VISCOSITY |-> 0]]

Init ==
    /\ Constructing
    /\ order = Ascending
    /\ pvtDeck = NoPvtDeck
    /\ PvtConstructed

\* OPM_THROW: the constructor is left by an exception; no object exists
Throw(what) ==
    /\ pc' = "failed"
    /\ err' = what
    /\ published' = FALSE

\* variable groups
pvtVars == << pvtDeck, pvtpc, pvterr, surface_density_, reservoir_density_,
             viscosity_ >>
inputs == << deck, phase_used, global_cell, order, pvtVars >>
getEquilVars == << nrec, record, rec >>
funcVars == << nRsvd, nRvvd, i, rs_func_, rv_func_ >>
arrays == << pp_, sat_, rs_, rv_, writers >>

\* the member initialisers of InitialStateComputer
MemberInit ==
    /\ pc = "start"
    /\ pp_' = [p \in 0 .. (numPhases(phase_used) - 1) |-> ZeroVec]
    /\ sat_' = [p \in 0 .. (numPhases(phase_used) - 1) |-> ZeroVec]
    /\ rs_' = ZeroVec
    /\ rv_' = ZeroVec
    /\ pc' = "getEquil"
    /\ UNCHANGED << inputs, getEquilVars, funcVars, err, e, eqlnum, r,
                    writers, published >>

(* ---------------------------------------------------------------------- *)
(* getEquil                                                                *)
(* ---------------------------------------------------------------------- *)
\* variant: the test names the EQLNUM keyword
HasEquil_WrongKeyword(d) == d.EQLNUM
\* deck->hasKeyword("EQUIL")
HasEquil(d) == d.EQUIL

\* variant: only a negative item 9 is rejected
Unsupported_Negative(rcd) == rcd.N < 0
\* record.N != 0: item 9 of the record is not supported
Unsupported(rcd) == rcd.N # 0

\* the test for the EQUIL keyword and the read of its record count
GetEquilKeyword ==
    /\ pc = "getEquil"
    /\ IF HasEquil(deck)
         THEN /\ \E n \in 1 .. MaxRec : nrec' = n
              /\ pc' = "getEquilLoop"
              /\ UNCHANGED << err, published >>
         ELSE /\ Throw("NoEquilibrationData")
              /\ UNCHANGED nrec
    /\ UNCHANGED << inputs, funcVars, arrays, record, rec, e, eqlnum, r >>

\* one iteration of the loop over the records, and the return after the
\* last one
GetEquilRecord ==
    /\ pc = "getEquilLoop"
    /\ Len(rec) < nrec
    /\ \E rcd \in EquilRecord :
         /\ record' = rcd
         /\ IF Unsupported(rcd)
              THEN /\ Throw("OnlyN0Supported")
                   /\ UNCHANGED rec
              ELSE /\ rec' = Append(rec, rcd)
                   /\ pc' = IF Len(rec) + 1 < nrec THEN "getEquilLoop"
                                                   ELSE "equilnum"
                   /\ UNCHANGED << err, published >>
    /\ UNCHANGED << inputs, funcVars, arrays, nrec, e, eqlnum, r >>

(* ---------------------------------------------------------------------- *)
(* equilnum and the region mapping                                         *)
(* ---------------------------------------------------------------------- *)
\* deck_pos = (gc == NULL) ? cell : gc[cell]
deck_pos(gc, cell) == IF gc = << >> THEN cell ELSE gc[cell]

\* the deck positions equilnum reads for a grid
DeckPositions(gc) == { deck_pos(gc, c) : c \in Cells }

\* equilnum: region id of every cell
equilnum(hasEQLNUM, ed, gc) ==
    IF hasEQLNUM
      THEN [cell \in Cells |-> ed[deck_pos(gc, cell)] - 1]
      ELSE [cell \in Cells |-> 0]

SetMax(S) == CHOOSE x \in S : \A y \in S : y <= x

\* RegionMapping::numRegions: ids run from 0 to the largest id in use
numRegions(reg) == SetMax({ reg[c] : c \in Cells }) + 1

RECURSIVE CellsFrom(_, _, _)
CellsFrom(reg, id, c) ==
    IF c >= NumCells THEN << >>
    ELSE IF reg[c] = id THEN << c >> \o CellsFrom(reg, id, c + 1)
    ELSE CellsFrom(reg, id, c + 1)

\* RegionMapping::cells: the cells of a region, in grid cell order
cells(reg, id) == CellsFrom(reg, id, 0)

\* the construction of eqlmap from equilnum(deck, eclipseState, G)
EquilNum ==
    /\ pc = "equilnum"
    /\ \E ed \in [DeckPositions(global_cell) -> 1 .. MaxRec] :
         /\ e' = IF deck.EQLNUM THEN ed ELSE << >>
         /\ eqlnum' = equilnum(deck.EQLNUM, ed, global_cell)
    /\ pc' = "rsTables"
    /\ UNCHANGED << inputs, getEquilVars, funcVars, arrays, err, r,
                    published >>

(* ---------------------------------------------------------------------- *)
(* Undefined behaviour                                                     *)
(* ---------------------------------------------------------------------- *)
\* outcomes of an undefined read: the process dies, or the read yields an
\* indeterminate value and the constructor goes on
Outcomes == {"dies", "goes on"}

\* a cell index, a table and a record of indeterminate value
IndeterminateCell == -1
IndeterminateTable == -1
IndeterminateRecord ==
    [main  |-> [depth |-> -1, press |-> -1],
     goc   |-> [depth |-> -1, press |-> -1],
     live_oil_table_index |-> -1,
     wet_gas_table_index  |-> -1,
     N     |-> -1]
IndeterminateFunction ==
    [kind |-> "indeterminate", cell |-> -1, table |-> -1, p_contact |-> -1]

Crash ==
    /\ pc' = "crashed"
    /\ UNCHANGED << err, published >>

\* *(eqlmap.cells(id).begin()) is defined when region id exists and has a cell
HasFirstCell(reg, id) == id < numRegions(reg) /\ cells(reg, id) # << >>
FirstCell(reg, id) ==
    IF HasFirstCell(reg, id) THEN Head(cells(reg, id)) ELSE IndeterminateCell

(* ---------------------------------------------------------------------- *)
(* Rs and Rv functions                                                     *)
(* ---------------------------------------------------------------------- *)
NoMixing == [kind |-> "NoMixing", cell |-> -1, table |-> 0, p_contact |-> 0]
\* Miscibility::RsVD / RvVD of (props, cell, columns of a table); tables are
\* named by their 1-based position in the table list
DepthTable(kind, cell, table) ==
    [kind |-> kind, cell |-> cell, table |-> table, p_contact |-> 0]
\* Miscibility::RsSatAtContact / RvSatAtContact of (props, cell, p_contact, T)
SatAtContact(kind, cell, p_contact) ==
    [kind |-> kind, cell |-> cell, table |-> 0, p_contact |-> p_contact]

\* rsvdTables[idx] (rvvdTables[idx]): defined below the list's size
TableAt(idx, ntab) == IF idx < ntab THEN idx + 1 ELSE IndeterminateTable

\* the table the RsVD function of region idx is built from: rsvdTables[i]
RsvdTableOf(idx, ntab) == TableAt(idx, ntab)
\* the table the RvVD function of region idx is built from: rvvdTables[i]
RvvdTableOf(idx, ntab) == TableAt(idx, ntab)

\* p_contact of the Rs and of the Rv function
RsContactPressure(rcd) == rcd.main.press
RvContactPressure(rcd) == rcd.main.press + rcd.goc.press

\* the reads of one iteration are defined
SelectDefined(idx, tabidx, ntab) ==
    /\ HasFirstCell(eqlnum, idx)
    /\ (tabidx > 0 /\ ntab > 0 /\ tabidx <= ntab) => idx < ntab

\* the body of the loops over rec: "throw", or the function pushed
Select(idx, tabidx, ntab, table, rcd, vd, sac, p_contact) ==
    IF tabidx > 0
      THEN IF ntab > 0 /\ tabidx <= ntab
             THEN DepthTable(vd, FirstCell(eqlnum, idx), table)
             ELSE [kind |-> "throw", cell |-> -1, table |-> tabidx, p_contact |-> 0]
      ELSE IF rcd.goc.depth # rcd.main.depth
             THEN [kind |-> "throw", cell |-> -1, table |-> 0, p_contact |-> 0]
             ELSE SatAtContact(sac, FirstCell(eqlnum, idx), p_contact)

\* deck->hasKeyword("DISGAS"), deck->hasKeyword("VAPOIL")
RsEnabled(d) == d.DISGAS
\* variant: the Rv block tests the keyword of the Rs block
RvEnabled_WrongKeyword(d) == d.DISGAS
RvEnabled(d) == d.VAPOIL

\* rs_func_.reserve, the test for DISGAS and, without DISGAS, the loop that
\* pushes NoMixing
RsTables ==
    /\ pc = "rsTables"
    /\ IF RsEnabled(deck)
         THEN /\ \E n \in 0 .. MaxTab : nRsvd' = n
              /\ pc' = "rsLoop"
              /\ UNCHANGED rs_func_
         ELSE /\ rs_func_' = [k \in 1 .. Len(rec) |-> NoMixing]
              /\ pc' = "rvTables"
              /\ UNCHANGED nRsvd
    /\ i' = 0
    /\ UNCHANGED << inputs, getEquilVars, arrays, nRvvd, rv_func_, err, e,
                    eqlnum, r, published >>

\* one iteration of the loop that creates the Rs functions
RsSelect ==
    /\ pc = "rsLoop"
    /\ i < Len(rec)
    /\ LET rcd == rec[i + 1]
           k   == rcd.live_oil_table_index
           f   == Select(i, k, nRsvd, RsvdTableOf(i, nRsvd), rcd,
                         "RsVD", "RsSatAtContact", RsContactPressure(rcd))
       IN  \E o \in Outcomes :
             IF ~SelectDefined(i, k, nRsvd) /\ o = "dies"
               THEN Crash /\ UNCHANGED << i, rs_func_ >>
             ELSE IF f.kind = "throw"
               THEN /\ Throw(IF k > 0 THEN "RsvdTableNotAvailable"
                                      ELSE "RsDatumNotAtContact")
                    /\ UNCHANGED << i, rs_func_ >>
             ELSE /\ rs_func_' = Append(rs_func_, f)
                  /\ i' = i + 1
                  /\ pc' = IF i + 1 < Len(rec) THEN "rsLoop" ELSE "rvTables"
                  /\ UNCHANGED << err, published >>
    /\ UNCHANGED << inputs, getEquilVars, arrays, nRsvd, nRvvd, rv_func_, e,
                    eqlnum, r >>

\* rv_func_.reserve, the test for VAPOIL and, without VAPOIL, the loop that
\* pushes NoMixing
RvTables ==
    /\ pc = "rvTables"
    /\ IF RvEnabled(deck)
         THEN /\ \E n \in 0 .. MaxTab : nRvvd' = n
              /\ pc' = "rvLoop"
              /\ UNCHANGED rv_func_
         ELSE /\ rv_func_' = [k \in 1 .. Len(rec) |-> NoMixing]
              /\ pc' = "calc"
              /\ UNCHANGED nRvvd
    /\ i' = 0
    /\ UNCHANGED << inputs, getEquilVars, arrays, nRsvd, rs_func_, err, e,
                    eqlnum, r, published >>

\* one iteration of the loop that creates the Rv functions
RvSelect ==
    /\ pc = "rvLoop"
    /\ i < Len(rec)
    /\ LET rcd == rec[i + 1]
           k   == rcd.wet_gas_table_index
           f   == Select(i, k, nRvvd, RvvdTableOf(i, nRvvd), rcd,
                         "RvVD", "RvSatAtContact", RvContactPressure(rcd))
       IN  \E o \in Outcomes :
             IF ~SelectDefined(i, k, nRvvd) /\ o = "dies"
               THEN Crash /\ UNCHANGED << i, rv_func_ >>
             ELSE IF f.kind = "throw"
               THEN /\ Throw(IF k > 0 THEN "RvvdTableNotAvailable"
                                      ELSE "RvDatumNotAtContact")
                    /\ UNCHANGED << i, rv_func_ >>
             ELSE /\ rv_func_' = Append(rv_func_, f)
                  /\ i' = i + 1
                  /\ pc' = IF i + 1 < Len(rec) THEN "rvLoop" ELSE "calc"
                  /\ UNCHANGED << err, published >>
    /\ UNCHANGED << inputs, getEquilVars, arrays, nRsvd, nRvvd, rs_func_, e,
                    eqlnum, r >>

(* ---------------------------------------------------------------------- *)
(* Per-region computations                                                 *)
(* ---------------------------------------------------------------------- *)
\* phasePressures: the pressure of the phase at position p in a cell of a
\* region with record rcd (datum pressure, a phase offset, a depth offset)
PhasePressure(rcd, p, cell) == rcd.main.press + 10 * (p + 1) + cell

\* phaseSaturations: the saturation (per cent) of a phase in a cell; cells
\* without free gas, without oil, and with both, follow each other
PhaseSaturation(phase, cell) ==
    CASE phase = "Aqua"   -> 20
      [] phase = "Vapour" -> (IF cell % 3 = 0 THEN 0 ELSE IF cell % 3 = 1 THEN 80 ELSE 40)
      [] phase = "Liquid" -> (IF cell % 3 = 0 THEN 80 ELSE IF cell % 3 = 1 THEN 0 ELSE 40)

\* the saturated ratio of the PVT evaluator at a pressure (Rs or Rv)
SatRatio(kind, press) ==
    IF kind \in {"RsVD", "RsSatAtContact"} THEN 1000 + press ELSE 2000 + press

\* the ratio a depth table gives at the depth of a cell
TableRatio(table, cell) ==
    IF table = IndeterminateTable THEN -1 ELSE 10 * table + cell

\* Miscibility function call: f(depth of cell, press, temp, sat)
Evaluate(f, cell, press, sat) ==
    CASE f.kind = "NoMixing" -> 0
      [] f.kind \in {"RsVD", "RvVD"} ->
            IF sat > 0 THEN SatRatio(f.kind, press)
                       ELSE TableRatio(f.table, cell)
      [] f.kind \in {"RsSatAtContact", "RvSatAtContact"} ->
            IF sat > 0 THEN SatRatio(f.kind, press)
                       ELSE SatRatio(f.kind, f.p_contact)
      [] OTHER -> -1

\* computeRs: one value per cell of the range
computeRs(cs, press, f, sat) ==
    [k \in 1 .. Len(cs) |-> Evaluate(f, cs[k], press[k], sat[k])]

\* variant: every value is copied to the first slot of destination
ScatterIndex_Shared(cs, k) == 0
\* variant: the position in the region is used as the slot
ScatterIndex_Position(cs, k) == k - 1
\* variant: the cell iterator is not advanced
ScatterIndex_First(cs, k) == cs[1]
\* the slot of destination the k-th value of source is copied to: *c
ScatterIndex(cs, k) == cs[k]

RECURSIVE CopyFrom(_, _, _, _)
CopyFrom(source, cs, destination, k) ==
    IF k > Len(cs) THEN destination
    ELSE CopyFrom(source, cs,
                  [destination EXCEPT ![ScatterIndex(cs, k)] = source[k]],
                  k + 1)

\* copyFromRegion: destination[*c] = *s, for c over cells and s over source
copyFromRegion(source, cs, destination) == CopyFrom(source, cs, destination, 1)

\* history of copyFromRegion: region id wrote the slots of cs
Wrote(w, cs, id) ==
    [c \in Cells |-> IF \E k \in 1 .. Len(cs) : ScatterIndex(cs, k) = c
                       THEN Append(w[c], id) ELSE w[c]]

\* rec[id], rs_func_[id], rv_func_[id] are defined below rec.size()
RegionRecord(id) == IF id < Len(rec) THEN rec[id + 1] ELSE IndeterminateRecord
\* variant: the Rs values are computed with the region's Rv function
RsFunctionOf_Rv(id) ==
    IF id < Len(rv_func_) THEN rv_func_[id + 1] ELSE IndeterminateFunction
\* *(rs_func_[id]) and *(rv_func_[id]), as passed to computeRs
RsFunctionOf(id) ==
    IF id < Len(rs_func_) THEN rs_func_[id + 1] ELSE IndeterminateFunction
RvFunctionOf(id) ==
    IF id < Len(rv_func_) THEN rv_func_[id + 1] ELSE IndeterminateFunction

\* the reads of one iteration of calcPressSatRsRv are defined
RegionDefined(id) == cells(eqlnum, id) # << >> /\ id < Len(rec)

\* variant: only the gas phase is tested
BothActive_GasOnly(pu) == pu.Vapour
\* phase_used[Liquid] && phase_used[Vapour]
BothActive(pu) == pu.Liquid /\ pu.Vapour

\* the regions the loop of calcPressSatRsRv visits, after region id
NextRegion(id) == id + 1

\* the region visited by iteration k of the loop of calcPressSatRsRv: the
\* k-th of the existing region ids, in the order of the loop
RegionAt(k) ==
    SelectSeq(order, LAMBDA id : id < numRegions(eqlnum))[k + 1]

\* the body of the loop of calcPressSatRsRv for region id: the global arrays
\* A (pp, sat, rs, rv) after the values of the region are copied into them
RegionArrays(id, A) ==
    LET cs     == cells(eqlnum, id)
        rcd    == RegionRecord(id)
        np     == numPhases(phase_used)
        press  == [p \in 0 .. (np - 1) |->
                     [k \in 1 .. Len(cs) |-> PhasePressure(rcd, p, cs[k])]]
        sat    == [p \in 0 .. (np - 1) |->
                     [k \in 1 .. Len(cs) |->
                         PhaseSaturation(PhaseAt(phase_used, p), cs[k])]]
        oilpos == phase_pos(phase_used, "Liquid")
        gaspos == phase_pos(phase_used, "Vapour")
    IN  [pp  |-> [p \in 0 .. (np - 1) |->
                    copyFromRegion(press[p], cs, A.pp[p])],
         sat |-> [p \in 0 .. (np - 1) |->
                    copyFromRegion(sat[p], cs, A.sat[p])],
         rs  |-> IF BothActive(phase_used)
                   THEN copyFromRegion(
                          computeRs(cs, press[oilpos],
                                    RsFunctionOf(id), sat[gaspos]),
                          cs, A.rs)
                   ELSE A.rs,
         rv  |-> IF BothActive(phase_used)
                   THEN copyFromRegion(
                          computeRs(cs, press[gaspos],
                                    RvFunctionOf(id), sat[oilpos]),
                          cs, A.rv)
                   ELSE A.rv]

\* one iteration of the loop over the regions in calcPressSatRsRv, and the
\* return of the constructor after the last one; the computations of a
\* region (pressure integration, capillary inversion, table lookup) may
\* throw
CalcRegion ==
    /\ pc = "calc"
    /\ r < numRegions(eqlnum)
    /\ LET id == RegionAt(r)
           cs == cells(eqlnum, id)
           B  == RegionArrays(id, [pp |-> pp_, sat |-> sat_,
                                   rs |-> rs_, rv |-> rv_])
       IN  \E o \in Outcomes \cup {"throws"} :
             IF ~RegionDefined(id) /\ o = "dies"
               THEN Crash /\ UNCHANGED << r, arrays >>
             ELSE IF o = "throws"
               THEN Throw("RegionComputation") /\ UNCHANGED << r, arrays >>
             ELSE
               /\ pp_' = B.pp
               /\ sat_' = B.sat
               /\ rs_' = B.rs
               /\ rv_' = B.rv
               /\ writers' =
                    [a \in ArrayNames |->
                       IF a \in {"pp", "sat"} \/ BothActive(phase_used)
                         THEN Wrote(writers[a], cs, id) ELSE writers[a]]
               /\ r' = NextRegion(r)
               /\ IF NextRegion(r) < numRegions(eqlnum)
                    THEN UNCHANGED << pc, published >>
                    ELSE pc' = "done" /\ published' = TRUE
               /\ UNCHANGED err
    /\ UNCHANGED << inputs, getEquilVars, funcVars, e, eqlnum >>

Next ==
    \/ MemberInit
    \/ GetEquilKeyword
    \/ GetEquilRecord
    \/ EquilNum
    \/ RsTables
    \/ RsSelect
    \/ RvTables
    \/ RvSelect
    \/ CalcRegion

Spec == Init /\ [][Next]_vars

\* the constructor with the region loop visiting the regions in any order
InitAnyOrder ==
    /\ Constructing
    /\ order \in Orders
    /\ pvtDeck = NoPvtDeck
    /\ PvtConstructed

SpecAnyOrder == InitAnyOrder /\ [][Next]_vars

(* ---------------------------------------------------------------------- *)
(* PvtPropertiesIncompFromDeck                                             *)
(* ---------------------------------------------------------------------- *)
\* phaseUsageFromDeck(deck): the phases of the deck
PvtPhaseConfigs ==
    PhaseConfigs \cup {[Aqua |-> FALSE, Liquid |-> TRUE, Vapour |-> TRUE]}

\* surface densities (kg/m3), volume factors and viscosities of the deck
SurfaceDensities == {800, 1000}
VolumeFactors == {1, 2}
Viscosities == {5}

\* the decks init is called with
PvtDecks ==
    [phase_used : PvtPhaseConfigs,
     keywords   : SUBSET {"DENSITY", "PVTW", "PVCDO"},
     DENSITY    : [OIL : SurfaceDensities, WATER : SurfaceDensities],
     PVTW       : [WATER_VOL_FACTOR : VolumeFactors,
                   WATER_VISCOSITY : Viscosities],
     PVCDO      : [OIL_VOL_FACTOR : VolumeFactors,
                   OIL_VISCOSITY : Viscosities]]

\* deck->hasKeyword(kw)
hasKeyword(d, kw) == kw \in d.keywords

\* OPM_THROW in init
PvtThrow(what) ==
    /\ pvtpc' = "failed"
    /\ pvterr' = what

\* the variables of InitialStateComputer
constructorVars ==
    << pc, err, deck, phase_used, global_cell, order, e, getEquilVars, eqlnum,
       funcVars, r, arrays, published >>

\* PvtPropertiesIncompFromDeck::init(deck)
init ==
    /\ pvtpc = "constructed"
    /\ LET pu     == pvtDeck.phase_used
           aqua   == phase_pos(pu, "Aqua")
           liquid == phase_pos(pu, "Liquid")
           \* surface_density_[phase_pos[Aqua]] = item OIL,
           \* surface_density_[phase_pos[Liquid]] = item WATER
           sd     == [surface_density_ EXCEPT
                         ![aqua]   = pvtDeck.DENSITY.OIL,
                         ![liquid] = pvtDeck.DENSITY.WATER]
           \* reservoir_density_[phase_pos[Aqua]] /= WATER_VOL_FACTOR
           rdw    == [sd EXCEPT
                         ![aqua] = sd[aqua] \div pvtDeck.PVTW.WATER_VOL_FACTOR]
           \* reservoir_density_[phase_pos[Liquid]] /= OIL_VOL_FACTOR
           rdo    == [rdw EXCEPT
                         ![liquid] =
                             rdw[liquid] \div pvtDeck.PVCDO.OIL_VOL_FACTOR]
           visw   == [viscosity_ EXCEPT
                         ![aqua] = pvtDeck.PVTW.WATER_VISCOSITY]
           viso   == [visw EXCEPT
                         ![liquid] = pvtDeck.PVCDO.OIL_VISCOSITY]
       IN  IF pu.Vapour \/ ~pu.Aqua \/ ~pu.Liquid
             THEN /\ PvtThrow("MustHaveWaterAndOilOnly")
                  /\ UNCHANGED << surface_density_, reservoir_density_,
                                  viscosity_ >>
           ELSE IF ~hasKeyword(pvtDeck, "DENSITY")
             THEN /\ PvtThrow("MissingDENSITY")
                  /\ UNCHANGED << surface_density_, reservoir_density_,
                                  viscosity_ >>
           ELSE IF ~hasKeyword(pvtDeck, "PVTW")
             THEN /\ PvtThrow("MissingPVTW")
                  /\ surface_density_' = sd
                  /\ reservoir_density_' = sd
                  /\ UNCHANGED viscosity_
           ELSE IF ~hasKeyword(pvtDeck, "PVCDO")
             THEN /\ PvtThrow("MissingPVCDO")
                  /\ surface_density_' = sd
                  /\ reservoir_density_' = rdw
                  /\ viscosity_' = visw
           ELSE /\ pvtpc' = "initialised"
                /\ surface_density_' = sd
                /\ reservoir_density_' = rdo
                /\ viscosity_' = viso
                /\ UNCHANGED pvterr
    /\ UNCHANGED << constructorVars, pvtDeck >>

\* a PvtPropertiesIncompFromDeck is constructed and init is called on it
InitPvt ==
    /\ Constructing
    /\ order = Ascending
    /\ pvtDeck \in PvtDecks
    /\ PvtConstructed

NextPvt == init

SpecPvt == InitPvt /\ [][NextPvt]_vars

(* ---------------------------------------------------------------------- *)
(* Properties                                                              *)
(* ---------------------------------------------------------------------- *)
\* no slot of any global array has been written
NothingWritten == \A a \in ArrayNames : \A c \in Cells : writers[a][c] = << >>

\* every global array still holds its initial zeros
ArraysZero ==
    /\ \A p \in DOMAIN pp_ : pp_[p] = ZeroVec
    /\ \A p \in DOMAIN sat_ : sat_[p] = ZeroVec
    /\ rs_ = ZeroVec
    /\ rv_ = ZeroVec

\* no part of the setup after getEquil has run
NothingSetUp ==
    /\ eqlnum = << >>
    /\ rs_func_ = << >>
    /\ rv_func_ = << >>
    /\ r = 0

\* C1: a record whose accuracy target is not 0 makes the initialisation fail
\* with the unsupported-configuration error; it is never stored, and at the
\* failure no region has been processed, no value has been written to a
\* global array and nothing is published.
C1_AccuracyTargetFails ==
    /\ \A k \in 1 .. Len(rec) : rec[k].N = 0
    /\ record.N # 0 =>
         /\ pc = "failed"
         /\ err = "OnlyN0Supported"
         /\ ~published
         /\ NothingSetUp
         /\ NothingWritten
         /\ ArraysZero

\* the second record of a deck carries accuracy target 5
C1_Witness ==
    /\ record.N = 5
    /\ Len(rec) = 1
    /\ pc = "failed"
    /\ err = "OnlyN0Supported"

\* C2: without the EQUIL keyword the setup fails with the "no equilibration
\* data" error as soon as getEquil runs: no record is read, no miscibility
\* function is built, no region is processed, nothing is published.
C2_NoEquilFails ==
    ~deck.EQUIL =>
        /\ pc \in {"start", "getEquil", "failed"}
        /\ pc = "failed" => err = "NoEquilibrationData"
        /\ rec = << >>
        /\ NothingSetUp
        /\ NothingWritten
        /\ ~published

\* getEquil has thrown for a deck without EQUIL
C2_Witness ==
    /\ ~deck.EQUIL
    /\ pc = "failed"
    /\ err = "NoEquilibrationData"

\* every slot of the pressure and saturation arrays of every active phase
\* has been written
AllPopulated ==
    /\ DOMAIN pp_ = 0 .. (numPhases(phase_used) - 1)
    /\ DOMAIN sat_ = 0 .. (numPhases(phase_used) - 1)
    /\ \A p \in DOMAIN pp_ : DOMAIN pp_[p] = Cells /\ DOMAIN sat_[p] = Cells
    /\ \A c \in Cells : writers["pp"][c] # << >> /\ writers["sat"][c] # << >>

\* C3: a result is observable by the caller only when the constructor has
\* returned, and then every slot of the pressure and saturation arrays of
\* every active phase has been populated by a region; a run that failed
\* publishes nothing, whatever the regions before the failure wrote.
C3_PopulatedOrNothing ==
    /\ published <=> pc = "done"
    /\ pc = "done" => AllPopulated /\ err = "none"
    /\ pc = "failed" => err # "none"

\* a run with two regions has returned
C3_Witness ==
    /\ pc = "done"
    /\ published
    /\ numRegions(eqlnum) = 2
    /\ r = 2

\* C4: after region setup every cell has one region id, every id is >= 0 and
\* every id below numRegions has at least one cell; without EQLNUM every
\* cell is in region 0, with EQLNUM the id is the EQLNUM value at the cell's
\* deck position, less one.
C4_RegionIdsDense ==
    eqlnum # << >> =>
        /\ DOMAIN eqlnum = Cells
        /\ \A c \in Cells : eqlnum[c] >= 0
        /\ \A id \in 0 .. (numRegions(eqlnum) - 1) :
              \E c \in Cells : eqlnum[c] = id
        /\ \A c \in Cells :
              eqlnum[c] = IF deck.EQLNUM
                            THEN e[IF global_cell = << >> THEN c
                                                          ELSE global_cell[c]] - 1
                            ELSE 0

\* the Rs (Rv) loop has been left with every function built
RsBuilt == pc \in {"rvTables", "rvLoop", "calc", "done"}
RvBuilt == pc \in {"calc", "done"}

\* C5: without DISGAS every region's Rs function is NoMixing, one per record,
\* whatever the records hold, the Rs loop with its table and depth tests is
\* never entered and none of its errors is raised; likewise for Rv without
\* VAPOIL.
C5_NoFlagNoMixing ==
    /\ ~deck.DISGAS =>
         /\ \A k \in 1 .. Len(rs_func_) : rs_func_[k] = NoMixing
         /\ RsBuilt => Len(rs_func_) = Len(rec)
         /\ pc # "rsLoop"
         /\ err \notin {"RsvdTableNotAvailable", "RsDatumNotAtContact"}
    /\ ~deck.VAPOIL =>
         /\ \A k \in 1 .. Len(rv_func_) : rv_func_[k] = NoMixing
         /\ RvBuilt => Len(rv_func_) = Len(rec)
         /\ pc # "rvLoop"
         /\ err \notin {"RvvdTableNotAvailable", "RvDatumNotAtContact"}

\* without VAPOIL, a record with a wet-gas table index and a datum off the
\* gas-oil contact got NoMixing for Rv, next to a table-driven Rs
C5_Witness ==
    /\ pc = "done"
    /\ deck.DISGAS /\ ~deck.VAPOIL
    /\ Len(rec) = 2
    /\ rec[2].wet_gas_table_index = 2
    /\ rec[2].goc.depth # rec[2].main.depth
    /\ rs_func_[2].kind = "RsVD"
    /\ rv_func_[2] = NoMixing

\* C6: with the flag present and a positive table index k in a region's
\* record, the region's depth-table function is built from table k of the
\* table list when the list has one, and setup fails with the "table not
\* available" error when it has none; for Rs and for Rv.
C6_TableOfIndex ==
    /\ deck.DISGAS =>
         /\ \A n \in 1 .. Len(rs_func_) :
               rec[n].live_oil_table_index > 0 =>
                  /\ rs_func_[n].kind = "RsVD"
                  /\ rs_func_[n].table = rec[n].live_oil_table_index
                  /\ rec[n].live_oil_table_index <= nRsvd
         /\ err = "RsvdTableNotAvailable" =>
               rec[i + 1].live_oil_table_index > nRsvd
    /\ deck.VAPOIL =>
         /\ \A n \in 1 .. Len(rv_func_) :
               rec[n].wet_gas_table_index > 0 =>
                  /\ rv_func_[n].kind = "RvVD"
                  /\ rv_func_[n].table = rec[n].wet_gas_table_index
                  /\ rec[n].wet_gas_table_index <= nRvvd
         /\ err = "RvvdTableNotAvailable" =>
               rec[i + 1].wet_gas_table_index > nRvvd

\* the Rs (Rv) loop was left before it had built a function for every record
RsStopped ==
    /\ pc \in {"failed", "crashed"}
    /\ deck.DISGAS
    /\ nrec > 0 /\ Len(rec) = nrec
    /\ Len(rs_func_) < Len(rec)
RvStopped ==
    /\ pc \in {"failed", "crashed"}
    /\ deck.VAPOIL
    /\ Len(rs_func_) = Len(rec)
    /\ nrec > 0 /\ Len(rec) = nrec
    /\ Len(rv_func_) < Len(rec)
    /\ r = 0 /\ err # "RegionComputation"

\* C7: with the flag present and no table index in a region's record, the
\* saturated-at-contact function is built only when the datum depth equals
\* the gas-oil-contact depth; when they differ setup fails with the "datum
\* must be at the gas-oil contact" error and no function is built for the
\* region; for Rs and for Rv.
C7_ContactNeedsDatum ==
    /\ deck.DISGAS =>
         \A n \in 1 .. Len(rs_func_) :
            rec[n].live_oil_table_index <= 0 =>
               /\ rs_func_[n].kind = "RsSatAtContact"
               /\ rec[n].goc.depth = rec[n].main.depth
    /\ RsStopped =>
         LET rcd == rec[Len(rs_func_) + 1]
         IN  rcd.live_oil_table_index <= 0 /\ rcd.goc.depth # rcd.main.depth
               => pc = "failed" /\ err = "RsDatumNotAtContact"
    /\ deck.VAPOIL =>
         \A n \in 1 .. Len(rv_func_) :
            rec[n].wet_gas_table_index <= 0 =>
               /\ rv_func_[n].kind = "RvSatAtContact"
               /\ rec[n].goc.depth = rec[n].main.depth
    /\ RvStopped =>
         LET rcd == rec[Len(rv_func_) + 1]
         IN  rcd.wet_gas_table_index <= 0 /\ rcd.goc.depth # rcd.main.depth
               => pc = "failed" /\ err = "RvDatumNotAtContact"

\* oil and gas are both active
OilAndGas == phase_used.Liquid /\ phase_used.Vapour

\* C8: once a region has been processed, every cell of it holds Rs = 0 when
\* the region's Rs function is NoMixing, and Rv = 0 when its Rv function is
\* NoMixing; with oil and gas active that zero is the value the region
\* scattered, also in cells with free gas (free oil).
C8_NoMixingZero ==
    \A id \in 0 .. (r - 1) : \A c \in Cells :
        eqlnum[c] = id =>
           /\ (id < Len(rs_func_) /\ rs_func_[id + 1].kind = "NoMixing") =>
                 /\ rs_[c] = 0
                 /\ OilAndGas => writers["rs"][c] = << id >>
           /\ (id < Len(rv_func_) /\ rv_func_[id + 1].kind = "NoMixing") =>
                 /\ rv_[c] = 0
                 /\ OilAndGas => writers["rv"][c] = << id >>

\* a cell with free gas lies in a region whose Rs function is NoMixing and
\* whose Rv function is not: the region scattered Rs = 0 and Rv # 0 to it
C8_Witness ==
    /\ pc = "done"
    /\ OilAndGas
    /\ ~deck.DISGAS /\ deck.VAPOIL
    /\ \E c \in Cells :
          /\ sat_[phase_pos(phase_used, "Vapour")][c] > 0
          /\ eqlnum[c] < Len(rs_func_)
          /\ rs_func_[eqlnum[c] + 1].kind = "NoMixing"
          /\ writers["rs"][c] # << >>
          /\ rs_[c] = 0
          /\ rv_[c] # 0

\* C9: the Rs and Rv arrays hold one value per cell; their slots are written
\* only when oil and gas are both active, and otherwise every entry is still
\* zero, also after all regions have been processed.
C9_RsRvOnlyWithOilAndGas ==
    /\ pc # "start" => DOMAIN rs_ = Cells /\ DOMAIN rv_ = Cells
    /\ ~OilAndGas =>
         /\ pc # "start" => rs_ = ZeroVec /\ rv_ = ZeroVec
         /\ \A c \in Cells : writers["rs"][c] = << >> /\ writers["rv"][c] = << >>

\* an oil+water run with DISGAS and VAPOIL has finished
C9_Witness ==
    /\ pc = "done"
    /\ phase_used.Liquid /\ ~phase_used.Vapour
    /\ deck.DISGAS /\ deck.VAPOIL
    /\ \A c \in Cells : writers["pp"][c] # << >>
    /\ rs_ = ZeroVec /\ rv_ = ZeroVec

\* region r has been processed in this step
RegionProcessed == pc = "calc" /\ r' = r + 1

\* the values a region computes for a cell
RegionValuesAt(id, c) ==
    /\ \A p \in DOMAIN pp_ :
          /\ pp_'[p][c] = PhasePressure(
                              IF id < Len(rec) THEN rec[id + 1]
                                               ELSE IndeterminateRecord, p, c)
          /\ sat_'[p][c] = PhaseSaturation(PhaseAt(phase_used, p), c)
    /\ OilAndGas =>
          /\ id < Len(rs_func_) =>
                rs_'[c] = Evaluate(rs_func_[id + 1], c,
                                   pp_'[phase_pos(phase_used, "Liquid")][c],
                                   sat_'[phase_pos(phase_used, "Vapour")][c])
          /\ id < Len(rv_func_) =>
                rv_'[c] = Evaluate(rv_func_[id + 1], c,
                                   pp_'[phase_pos(phase_used, "Vapour")][c],
                                   sat_'[phase_pos(phase_used, "Liquid")][c])

\* the slots of cell c are left as they are
SlotsUnchanged(c) ==
    /\ \A p \in DOMAIN pp_ : pp_'[p][c] = pp_[p][c] /\ sat_'[p][c] = sat_[p][c]
    /\ rs_'[c] = rs_[c]
    /\ rv_'[c] = rv_[c]
    /\ \A a \in ArrayNames : writers'[a][c] = writers[a][c]

\* each slot is written by at most one region, the region of its cell, and
\* by exactly that one when the run has finished
WrittenByOwnRegion ==
    \A c \in Cells :
        /\ \A a \in ArrayNames :
              writers[a][c] # << >> => writers[a][c] = << eqlnum[c] >>
        /\ pc = "done" =>
              /\ writers["pp"][c] = << eqlnum[c] >>
              /\ writers["sat"][c] = << eqlnum[c] >>
              /\ OilAndGas => /\ writers["rs"][c] = << eqlnum[c] >>
                              /\ writers["rv"][c] = << eqlnum[c] >>

\* C10: processing region r writes, for every cell of region r, the value
\* the region computed for that cell into the cell's slot of each array,
\* and leaves the slots of every other cell unchanged; over the run each
\* slot is written by exactly one region.
C10_ScatterFrame ==
    /\ [][RegionProcessed =>
            \A c \in Cells :
                IF eqlnum[c] = r THEN RegionValuesAt(r, c)
                                 ELSE SlotsUnchanged(c)]_vars
    /\ []WrittenByOwnRegion

\* region 0 of two has been scattered: its cell is written, the other is not
C10_Witness ==
    /\ pc = "calc"
    /\ r = 1
    /\ numRegions(eqlnum) = 2
    /\ \E c, d \in Cells :
          /\ eqlnum[c] = 0 /\ writers["pp"][c] = << 0 >> /\ pp_[0][c] # 0
          /\ eqlnum[d] = 1 /\ writers["pp"][d] = << >> /\ pp_[0][d] = 0

\* the global arrays after the region loop has visited the regions
\* 0 .. n - 1 in ascending order, from the arrays of the member initialisers
RECURSIVE AscendingArrays(_)
AscendingArrays(n) ==
    IF n = 0
      THEN [pp  |-> [p \in 0 .. (numPhases(phase_used) - 1) |-> ZeroVec],
            sat |-> [p \in 0 .. (numPhases(phase_used) - 1) |-> ZeroVec],
            rs  |-> ZeroVec,
            rv  |-> ZeroVec]
      ELSE RegionArrays(n - 1, AscendingArrays(n - 1))

OilSlot == IF phase_used.Aqua THEN 1 ELSE 0
GasSlot == OilSlot + 1

\* the cell has received its Rs and Rv from a region that has an Rs and an
\* Rv function, with oil and gas active
RsRvComputed(c) ==
    /\ OilAndGas
    /\ writers["rs"][c] # << >> /\ writers["rv"][c] # << >>
    /\ eqlnum[c] < Len(rs_func_) /\ eqlnum[c] < Len(rv_func_)

\* the saturated value of the PVT evaluator at press where the saturation
\* sat of the other phase is strictly positive, the value of the function f
\* otherwise
SaturatedOrFunction(f, satKind, c, press, sat) ==
    IF sat > 0 THEN SatRatio(satKind, press) ELSE Evaluate(f, c, press, sat)

\* C12 as stated: for every cell of a region with oil and gas active, Rs is
\* the saturated value at the cell's oil pressure when its gas saturation is
\* strictly positive and the value of the region's Rs function otherwise;
\* Rv likewise from the gas pressure, the oil saturation and the region's Rv
\* function.
C12_SaturatedWhereverFree ==
    \A c \in Cells :
        RsRvComputed(c) =>
           /\ rs_[c] = SaturatedOrFunction(rs_func_[eqlnum[c] + 1], "RsVD", c,
                                           pp_[OilSlot][c], sat_[GasSlot][c])
           /\ rv_[c] = SaturatedOrFunction(rv_func_[eqlnum[c] + 1], "RvVD", c,
                                           pp_[GasSlot][c], sat_[OilSlot][c])

\* C12: for every cell of a region with oil and gas active, Rs is zero when
\* the region's Rs function is NoMixing; otherwise it is the saturated value
\* at the cell's oil pressure when the cell's gas saturation is strictly
\* positive, and the value of the region's Rs function at the cell, its oil
\* pressure and its gas saturation when not. Rv follows the same rule with
\* the region's Rv function, the cell's gas pressure and its oil saturation.
C12_SaturatedUnlessNoMixing ==
    \A c \in Cells :
        RsRvComputed(c) =>
           LET rsf == rs_func_[eqlnum[c] + 1]
               rvf == rv_func_[eqlnum[c] + 1]
           IN  /\ rs_[c] = IF rsf.kind = "NoMixing" THEN 0
                           ELSE SaturatedOrFunction(rsf, "RsVD", c,
                                    pp_[OilSlot][c], sat_[GasSlot][c])
               /\ rv_[c] = IF rvf.kind = "NoMixing" THEN 0
                           ELSE SaturatedOrFunction(rvf, "RvVD", c,
                                    pp_[GasSlot][c], sat_[OilSlot][c])

\* with DISGAS and VAPOIL, a cell with free gas and no oil holds the
\* saturated Rs at its oil pressure and the Rv its region's function gives,
\* and a cell with oil and no free gas the opposite
C12_Witness ==
    /\ pc = "done"
    /\ deck.DISGAS /\ deck.VAPOIL
    /\ \E c, d \in Cells :
          /\ RsRvComputed(c) /\ RsRvComputed(d)
          /\ sat_[GasSlot][c] > 0 /\ sat_[OilSlot][c] = 0
          /\ rs_[c] = SatRatio("RsVD", pp_[OilSlot][c])
          /\ rv_[c] = Evaluate(rv_func_[eqlnum[c] + 1], c, pp_[GasSlot][c], 0)
          /\ rv_[c] # SatRatio("RvVD", pp_[GasSlot][c])
          /\ sat_[GasSlot][d] = 0 /\ sat_[OilSlot][d] > 0
          /\ rv_[d] = SatRatio("RvVD", pp_[GasSlot][d])
          /\ rs_[d] # SatRatio("RsVD", pp_[OilSlot][d])

\* the functions pushed so far were built from defined reads: the
\* representative cell is the first cell of a non-empty region, and the
\* table of a depth-table function is an element of the table list
FunctionReadsInBounds(funcs) ==
    \A k \in 1 .. Len(funcs) :
        /\ funcs[k].kind # "NoMixing" => funcs[k].cell # IndeterminateCell
        /\ funcs[k].kind \in {"RsVD", "RvVD"} =>
              funcs[k].table # IndeterminateTable

\* C13: a run that does not fail with a reported error never reads out of
\* bounds: no undefined read ends it, every Rs and Rv function is built
\* from the first cell of a non-empty region and from a table inside the
\* table list, and every region the region loop has visited is non-empty
\* and has a record, an Rs function and an Rv function.
C13_ReadsInBounds ==
    /\ pc # "crashed"
    /\ FunctionReadsInBounds(rs_func_)
    /\ FunctionReadsInBounds(rv_func_)
    /\ pc \in {"calc", "done"} =>
          \A id \in 0 .. (r - 1) :
              /\ cells(eqlnum, id) # << >>
              /\ id < Len(rec)
              /\ id < Len(rs_func_)
              /\ id < Len(rv_func_)

\* C14: after init has succeeded, the surface density at the water position
\* is the WATER item of the DENSITY record and the one at the oil position
\* its OIL item, and the reservoir density of each phase is the surface
\* density of that phase divided by the volume factor of that phase.
C14_DensitiesOfOwnPhase ==
    pvtpc = "initialised" =>
        LET water == phase_pos(pvtDeck.phase_used, "Aqua")
            oil   == phase_pos(pvtDeck.phase_used, "Liquid")
        IN  /\ surface_density_[water] = pvtDeck.DENSITY.WATER
            /\ surface_density_[oil] = pvtDeck.DENSITY.OIL
            /\ reservoir_density_[water] =
                  pvtDeck.DENSITY.WATER \div pvtDeck.PVTW.WATER_VOL_FACTOR
            /\ reservoir_density_[oil] =
                  pvtDeck.DENSITY.OIL \div pvtDeck.PVCDO.OIL_VOL_FACTOR

====
